---- MODULE Spec2Model ----
(***************************************************************************)
(* A model of the ART trace parser (src/src/trace-parser.ts) and of the    *)
(* receive-time sorter sample (src/samples/sortOnReceiveTime.ts).           *)
(*                                                                         *)
(* A line of text is a sequence of one-character strings.  The scanner,    *)
(* the token matcher, the three productions and JSON.parse are operators   *)
(* over such sequences, computed the way the code computes them.  An       *)
(* exception is an explicit outcome ("throw") of the operator that raises  *)
(* it, so that a try/catch is something the model has to do.               *)
(***************************************************************************)
EXTENDS Integers, Sequences, FiniteSets, TLC

VARIABLES
    pc,          \* position of the driver of the operation under study
    line,        \* parseLine: the line passed to the last call
    lineNumber,  \* parseLine: the line number passed to the last call
    result,      \* parseLine: outcome of the last call
    mt,          \* matchTokens: arguments and effects of the last call
    file,        \* sortOnReceiveTime: the lines of the input file
    sorter,      \* sortOnReceiveTime: locals (messages, sorted, startIndex, result)
    parser,      \* TraceParser: configuration accumulator and configuration value
    shape        \* the pieces the current line was written from

vars == <<pc, line, lineNumber, result, mt, file, sorter, parser, shape>>

-----------------------------------------------------------------------------
(* Characters and character classes of the scanner's regular expressions.  *)

Lower == {"a", "b", "c", "d", "e", "f", "g", "h", "i", "j", "k", "l", "m",
          "n", "o", "p", "q", "r", "s", "t", "u", "v", "w", "x", "y", "z"}
Upper == {"A", "B", "C", "D", "E", "F", "G", "H", "I", "J", "K", "L", "M",
          "N", "O", "P", "Q", "R", "S", "T", "U", "V", "W", "X", "Y", "Z"}
DigitSeq == <<"0", "1", "2", "3", "4", "5", "6", "7", "8", "9">>
Digits == {DigitSeq[k] : k \in 1..10}
HexDigits == Digits \cup {"a", "b", "c", "d", "e", "f"}
NameStart == Lower \cup Upper \cup {"_"}
NameChar == NameStart \cup Digits
WhiteSpace == {" ", "\t", "\r", "\n"}

\* The numeric value of a decimal digit character.
DigitVal(c) == (CHOOSE k \in 1..10 : DigitSeq[k] = c) - 1

\* Length of the longest run of characters of class C in s starting at i.
RECURSIVE RunLen(_, _, _)
RunLen(s, i, C) ==
    IF i <= Len(s) /\ s[i] \in C THEN 1 + RunLen(s, i + 1, C) ELSE 0

\* s has p as a substring starting at position i.
HasPrefix(s, i, p) ==
    /\ i + Len(p) - 1 <= Len(s)
    /\ \A k \in 1..Len(p) : s[i + k - 1] = p[k]

\* String.prototype.lastIndexOf, 1-based; 0 when c does not occur in s.
LastIndexOf(s, c) ==
    LET hits == {j \in 1..Len(s) : s[j] = c}
    IN  IF hits = {} THEN 0 ELSE CHOOSE j \in hits : \A k \in hits : k <= j

\* parseInt of a run of decimal digits.
RECURSIVE ParseInt(_)
ParseInt(s) ==
    IF s = <<>> THEN 0
    ELSE 10 * ParseInt(SubSeq(s, 1, Len(s) - 1)) + DigitVal(s[Len(s)])

\* Number.prototype.toString of a non-negative integer.
RECURSIVE NumToString(_)
NumToString(n) ==
    IF n < 10 THEN <<DigitSeq[n + 1]>>
    ELSE NumToString(n \div 10) \o <<DigitSeq[(n % 10) + 1]>>

\* str.replace(/\\"/g, "\""): every backslash-quote pair becomes a quote.
RECURSIVE UnescapeQuotes(_)
UnescapeQuotes(s) ==
    IF s = <<>> THEN <<>>
    ELSE IF HasPrefix(s, 1, <<"\\", "\"">>)
         THEN <<"\"">> \o UnescapeQuotes(SubSeq(s, 3, Len(s)))
         ELSE <<s[1]>> \o UnescapeQuotes(SubSeq(s, 2, Len(s)))

-----------------------------------------------------------------------------
(* The scanner: Tokenizr with the rules of initScanner, first match wins.  *)

KwInstance == <<"i", "n", "s", "t", "a", "n", "c", "e">>
KwNote == <<"n", "o", "t", "e">>

\* A token.  value is the token's value as text; for a number token isNum is
\* TRUE and num is the parsed integer (typeof token.value === 'number').
Token(type, text, value, isNum, num) ==
    [type |-> type, text |-> text, value |-> value, isNum |-> isNum,
     num |-> num, line |-> 0]

\* ctx.accept(type) without a value: the value is the matched text.
Accept(type, text) == Token(type, text, text, FALSE, 0)

EOFToken == Accept("EOF", <<>>)

\* Length matched by each rule at position i of s; 0 when it does not match.
KeywordLen(s, i) ==
    IF HasPrefix(s, i, KwInstance) THEN Len(KwInstance)
    ELSE IF HasPrefix(s, i, KwNote) THEN Len(KwNote) ELSE 0

NameLen(s, i) ==
    IF s[i] \in NameStart THEN 1 + RunLen(s, i + 1, NameChar) ELSE 0

\* /"((?:\\"|[^\r\n])*)"/ is greedy and [^\r\n] also matches a quote, so the
\* match runs from the quote at i to the last quote of the line.
StringLen(s, i) ==
    LET last == LastIndexOf(s, "\"")
    IN  IF s[i] = "\"" /\ last > i
           /\ \A k \in i..last : s[k] \notin {"\r", "\n"}
        THEN last - i + 1 ELSE 0

CommentLen(s, i) ==
    IF HasPrefix(s, i, <<"/", "/">>)
       /\ \A k \in i..Len(s) : s[k] \notin {"\r", "\n"}
    THEN Len(s) - i + 1 ELSE 0

WhitespaceLen(s, i) == RunLen(s, i, WhiteSpace)

AddressLen(s, i) ==
    IF HasPrefix(s, i, <<"0", "x">>) /\ RunLen(s, i + 2, HexDigits) > 0
    THEN 2 + RunLen(s, i + 2, HexDigits) ELSE 0

NumberLen(s, i) == RunLen(s, i, Digits)

EventDataLen(s, i) ==
    IF s[i] = "(" /\ \A k \in i..Len(s) : s[k] \notin {"\r", "\n"}
    THEN Len(s) - i + 1 ELSE 0

\* The value of an event-with-data token whose text is str (str[1] = "(").
EventDataValue(str) ==
    LET i == LastIndexOf(str, ")")
    IN  IF i # 0 THEN SubSeq(str, 2, i - 1) ELSE SubSeq(str, 2, Len(str))

\* lexer.tokens(): [ok, toks]; ok = FALSE is Tokenizr's ParsingError, raised
\* when no rule matches at the current position.
RECURSIVE Scan(_, _, _)
Scan(s, i, acc) ==
    IF i > Len(s) THEN [ok |-> TRUE, toks |-> Append(acc, EOFToken)]
    ELSE
    LET T(n) == SubSeq(s, i, i + n - 1)
    IN  IF KeywordLen(s, i) > 0
        THEN Scan(s, i + KeywordLen(s, i),
                  Append(acc, Accept("keyword", T(KeywordLen(s, i)))))
        ELSE IF NameLen(s, i) > 0
        THEN Scan(s, i + NameLen(s, i),
                  Append(acc, Accept("name", T(NameLen(s, i)))))
        ELSE IF StringLen(s, i) > 0
        THEN Scan(s, i + StringLen(s, i),
                  Append(acc, Token("string", T(StringLen(s, i)),
                      UnescapeQuotes(SubSeq(s, i + 1, i + StringLen(s, i) - 2)),
                      FALSE, 0)))
        ELSE IF CommentLen(s, i) > 0
        THEN Scan(s, i + CommentLen(s, i), acc)
        ELSE IF WhitespaceLen(s, i) > 0
        THEN Scan(s, i + WhitespaceLen(s, i), acc)
        ELSE IF AddressLen(s, i) > 0
        THEN Scan(s, i + AddressLen(s, i),
                  Append(acc, Accept("address", T(AddressLen(s, i)))))
        ELSE IF NumberLen(s, i) > 0
        THEN Scan(s, i + NumberLen(s, i),
                  Append(acc, Token("number", T(NumberLen(s, i)),
                      T(NumberLen(s, i)), TRUE, ParseInt(T(NumberLen(s, i))))))
        ELSE IF HasPrefix(s, i, <<"-", ">">>)
        THEN Scan(s, i + 2, Append(acc, Accept("arrow", T(2))))
        ELSE IF s[i] = "."
        THEN Scan(s, i + 1, Append(acc, Accept("dot", T(1))))
        ELSE IF s[i] = "["
        THEN Scan(s, i + 1, Append(acc, Accept("open-square-bracket", T(1))))
        ELSE IF s[i] = "]"
        THEN Scan(s, i + 1, Append(acc, Accept("close-square-bracket", T(1))))
        ELSE IF EventDataLen(s, i) > 0
        THEN Scan(s, i + EventDataLen(s, i),
                  Append(acc, Token("event-with-data", T(EventDataLen(s, i)),
                      EventDataValue(T(EventDataLen(s, i))), FALSE, 0)))
        ELSE IF s[i] = ":"
        THEN Scan(s, i + 1, Append(acc, Accept("colon", T(1))))
        ELSE [ok |-> FALSE, toks |-> <<>>]

initScanner(s) == Scan(s, 1, <<>>)

-----------------------------------------------------------------------------
(* JavaScript values, and JSON.parse over the characters of its argument.  *)

Undefined == [t |-> "undefined"]
JNull == [t |-> "null"]
JBool(b) == [t |-> "bool", b |-> b]
JNum(n) == [t |-> "num", n |-> n]
JStr(s) == [t |-> "str", s |-> s]
JArr(xs) == [t |-> "arr", xs |-> xs]
\* An object: its members in source order, each [k |-> key, v |-> value].
JObj(kv) == [t |-> "obj", kv |-> kv]

JsonWs == {" ", "\t", "\r", "\n"}
SkipWs(s, i) == i + RunLen(s, i, JsonWs)

\* A result of a parsing step: ok with a value and the next position, a
\* SyntaxError (throw), or a construct outside the modelled subset of JSON
\* (fractions, exponents, escapes other than \" \\ \/).
POk(v, i) == [st |-> "ok", v |-> v, i |-> i]
PThrow == [st |-> "throw"]
PUnsupported == [st |-> "unsupported"]

\* A JSON string starting after the opening quote at position i.
RECURSIVE JsonStringChars(_, _, _)
JsonStringChars(s, i, acc) ==
    IF i > Len(s) THEN PThrow
    ELSE IF s[i] = "\"" THEN POk(JStr(acc), i + 1)
    ELSE IF s[i] \in {"\t", "\r", "\n"} THEN PThrow
    ELSE IF s[i] = "\\"
    THEN IF i + 1 > Len(s) THEN PThrow
         ELSE IF s[i + 1] \in {"\"", "\\", "/"}
              THEN JsonStringChars(s, i + 2, Append(acc, s[i + 1]))
         ELSE IF s[i + 1] \in {"b", "f", "n", "r", "t", "u"} THEN PUnsupported
         ELSE PThrow
    ELSE JsonStringChars(s, i + 1, Append(acc, s[i]))

\* A JSON number starting at position i: -? (0 | [1-9][0-9]*).
JsonNumber(s, i) ==
    LET neg == s[i] = "-"
        j == IF neg THEN i + 1 ELSE i
        n == IF j <= Len(s) /\ s[j] = "0" THEN 1 ELSE RunLen(s, j, Digits)
        k == j + n
    IN  IF n = 0 THEN PThrow
        ELSE IF k <= Len(s) /\ s[k] \in {".", "e", "E"} THEN PUnsupported
        ELSE POk(JNum((IF neg THEN -1 ELSE 1) * ParseInt(SubSeq(s, j, k - 1))), k)

JsonLiteral(s, i) ==
    IF HasPrefix(s, i, <<"t", "r", "u", "e">>) THEN POk(JBool(TRUE), i + 4)
    ELSE IF HasPrefix(s, i, <<"f", "a", "l", "s", "e">>) THEN POk(JBool(FALSE), i + 5)
    ELSE IF HasPrefix(s, i, <<"n", "u", "l", "l">>) THEN POk(JNull, i + 4)
    ELSE PThrow

RECURSIVE JsonValue(_, _)
RECURSIVE JsonMembers(_, _, _)
RECURSIVE JsonElements(_, _, _)

\* A value, with the whitespace around it, starting at position i.
JsonValue(s, i0) ==
    LET i == SkipWs(s, i0)
        Trail(r) == IF r.st = "ok" THEN POk(r.v, SkipWs(s, r.i)) ELSE r
    IN  IF i > Len(s) THEN PThrow
        ELSE IF s[i] = "{"
        THEN IF SkipWs(s, i + 1) <= Len(s) /\ s[SkipWs(s, i + 1)] = "}"
             THEN Trail(POk(JObj(<<>>), SkipWs(s, i + 1) + 1))
             ELSE Trail(JsonMembers(s, i + 1, <<>>))
        ELSE IF s[i] = "["
        THEN IF SkipWs(s, i + 1) <= Len(s) /\ s[SkipWs(s, i + 1)] = "]"
             THEN Trail(POk(JArr(<<>>), SkipWs(s, i + 1) + 1))
             ELSE Trail(JsonElements(s, i + 1, <<>>))
        ELSE IF s[i] = "\"" THEN Trail(JsonStringChars(s, i + 1, <<>>))
        ELSE IF s[i] = "-" \/ s[i] \in Digits THEN Trail(JsonNumber(s, i))
        ELSE Trail(JsonLiteral(s, i))

\* The members of an object, from position i0 to after the closing brace.
JsonMembers(s, i0, acc) ==
    LET i == SkipWs(s, i0)
    IN  IF i > Len(s) \/ s[i] # "\"" THEN PThrow
        ELSE
        LET key == JsonStringChars(s, i + 1, <<>>)
        IN  IF key.st # "ok" THEN key
            ELSE
            LET c == SkipWs(s, key.i)
            IN  IF c > Len(s) \/ s[c] # ":" THEN PThrow
                ELSE
                LET val == JsonValue(s, c + 1)
                IN  IF val.st # "ok" THEN val
                    ELSE
                    LET kv == Append(acc, [k |-> key.v.s, v |-> val.v])
                    IN  IF val.i > Len(s) THEN PThrow
                        ELSE IF s[val.i] = "}" THEN POk(JObj(kv), val.i + 1)
                        ELSE IF s[val.i] = "," THEN JsonMembers(s, val.i + 1, kv)
                        ELSE PThrow

\* The elements of an array, from position i0 to after the closing bracket.
JsonElements(s, i0, acc) ==
    LET val == JsonValue(s, i0)
    IN  IF val.st # "ok" THEN val
        ELSE
        LET xs == Append(acc, val.v)
        IN  IF val.i > Len(s) THEN PThrow
            ELSE IF s[val.i] = "]" THEN POk(JArr(xs), val.i + 1)
            ELSE IF s[val.i] = "," THEN JsonElements(s, val.i + 1, xs)
            ELSE PThrow

\* JSON.parse(text): the whole text must be one value.
JSONparse(s) ==
    LET r == JsonValue(s, 1)
    IN  IF r.st = "ok" /\ r.i <= Len(s) THEN PThrow ELSE r

\* obj.key for a JavaScript value: a TypeError on null and undefined,
\* undefined on a primitive, an array or an object without the member, and
\* the member's value (the last one of that name) otherwise.
PropGet(v, key) ==
    IF v.t \in {"null", "undefined"} THEN [st |-> "throw"]
    ELSE IF v.t # "obj" THEN [st |-> "ok", v |-> Undefined]
    ELSE LET hits == {j \in 1..Len(v.kv) : v.kv[j].k = key}
         IN  IF hits = {} THEN [st |-> "ok", v |-> Undefined]
             ELSE [st |-> "ok",
                   v |-> v.kv[CHOOSE j \in hits : \A k \in hits : k <= j].v]

-----------------------------------------------------------------------------
(* The token matcher.                                                      *)

\* tokenKinds[j].startsWith('kw:') and tokenKinds[j].substring(3), for the
\* kinds the productions use.
IsKeywordKind(kind) == kind \in {"kw:instance", "kw:note"}
KeywordOf(kind) == IF kind = "kw:instance" THEN KwInstance ELSE KwNote

\* Tokenizr's token.isA(type) and token.isA(type, value).
isA(token, type) == token.type = type
isAValue(token, type, value) == token.type = type /\ token.value = value

\* The loop of matchTokens from j on: TRUE when it runs to the end, FALSE
\* when it returns at a token that does not match.  i is 0-based as in the
\* code; tokens is 1-based.
RECURSIVE MatchLoop(_, _, _, _)
MatchLoop(i, tokens, tokenKinds, j) ==
    IF ~(j < Len(tokenKinds)) THEN TRUE
    ELSE LET isKeyword == IsKeywordKind(tokenKinds[j + 1])
             tok == tokens[i + j + 1]
         IN  IF ~isKeyword /\ isA(tok, tokenKinds[j + 1])
             THEN MatchLoop(i, tokens, tokenKinds, j + 1)
             ELSE IF isKeyword /\ isAValue(tok, "keyword", KeywordOf(tokenKinds[j + 1]))
             THEN MatchLoop(i, tokens, tokenKinds, j + 1)
             ELSE FALSE

\* matchTokens with the length test off by one.
matchTokensShort(i, tokens, tokenKinds, res) ==
    IF Len(tokens) <= i + Len(tokenKinds)
    THEN [ret |-> FALSE, i |-> i, calls |-> 0, matched |-> <<>>]
    ELSE IF ~MatchLoop(i, tokens, tokenKinds, 0)
    THEN [ret |-> FALSE, i |-> i, calls |-> 0, matched |-> <<>>]
    ELSE [ret |-> TRUE,
          i |-> IF res # "false" THEN i + Len(tokenKinds) ELSE i,
          calls |-> 1,
          matched |-> SubSeq(tokens, i + 1, i + Len(tokenKinds))]

\* matchTokens(i, tokens, tokenKinds, onMatch).  res is what onMatch returns
\* when called ("false" or "void").  The result gives the return value, the
\* cursor afterwards, how often onMatch was called and the slice it was given.
matchTokens(i, tokens, tokenKinds, res) ==
    IF Len(tokens) < i + Len(tokenKinds)
    THEN [ret |-> FALSE, i |-> i, calls |-> 0, matched |-> <<>>]
    ELSE IF ~MatchLoop(i, tokens, tokenKinds, 0)
    THEN [ret |-> FALSE, i |-> i, calls |-> 0, matched |-> <<>>]
    ELSE [ret |-> TRUE,
          i |-> IF res # "false" THEN i + Len(tokenKinds) ELSE i,
          calls |-> 1,
          matched |-> SubSeq(tokens, i + 1, i + Len(tokenKinds))]

IndexSpecifier == <<"open-square-bracket", "number", "close-square-bracket">>

-----------------------------------------------------------------------------
(* The three productions and parseLine.                                    *)

Null == [kind |-> "null"]

\* The for loop of isInstanceDecl from cursor index with the path collected
\* so far: [ok, index, structureExpr]; ok = FALSE is the return null inside.
RECURSIVE StructureLoop(_, _, _)
StructureLoop(tokens, index, structureExpr) ==
    IF ~(index < Len(tokens))
    THEN [ok |-> TRUE, index |-> index, structureExpr |-> structureExpr]
    ELSE
    LET name == matchTokens(index, tokens, <<"name">>, "void")
    IN  IF ~name.ret
        THEN [ok |-> FALSE, index |-> index, structureExpr |-> structureExpr]
        ELSE
        LET expr1 == Append(structureExpr, tokens[index + 1])
            dot1 == matchTokens(name.i, tokens, <<"dot">>, "void")
        IN  IF dot1.ret THEN StructureLoop(tokens, dot1.i, expr1)
            ELSE
            LET idx == matchTokens(name.i, tokens, IndexSpecifier, "void")
                expr2 == IF idx.ret THEN Append(expr1, idx.matched[2]) ELSE expr1
                dot2 == matchTokens(idx.i, tokens, <<"dot">>, "void")
            IN  IF dot2.ret THEN StructureLoop(tokens, dot2.i, expr2)
                ELSE
                LET colon == matchTokens(idx.i, tokens, <<"colon">>, "false")
                    eof == matchTokens(colon.i, tokens, <<"EOF">>, "void")
                IN  IF colon.ret
                    THEN [ok |-> TRUE, index |-> colon.i, structureExpr |-> expr2]
                    ELSE IF eof.ret
                    THEN [ok |-> TRUE, index |-> eof.i, structureExpr |-> expr2]
                    ELSE StructureLoop(tokens, eof.i, expr2)

\* isInstanceDecl without the return null inside the loop: the path collected
\* before the token that is no name is kept.
isInstanceDeclPartial(tokens) ==
    LET head == matchTokens(0, tokens, <<"kw:instance", "address">>, "void")
    IN  IF ~head.ret THEN Null
        ELSE
        LET loop == StructureLoop(tokens, head.i, <<>>)
            type == matchTokens(loop.index, tokens, <<"colon", "name">>, "void")
        IN  [kind |-> "InstanceDecl",
             address |-> head.matched[2],
             structureExpr |-> loop.structureExpr,
             dynamicType |-> IF type.ret THEN type.matched[2] ELSE Undefined]

isInstanceDecl(tokens) ==
    LET head == matchTokens(0, tokens, <<"kw:instance", "address">>, "void")
    IN  IF ~head.ret THEN Null
        ELSE
        LET loop == StructureLoop(tokens, head.i, <<>>)
        IN  IF ~loop.ok THEN Null
            ELSE
            LET type == matchTokens(loop.index, tokens, <<"colon", "name">>, "void")
            IN  [kind |-> "InstanceDecl",
                 address |-> head.matched[2],
                 structureExpr |-> loop.structureExpr,
                 dynamicType |-> IF type.ret THEN type.matched[2] ELSE Undefined]

\* The event callback without JSON.parse: the value is always kept as text.
EventDataRaw(value) == JStr(value)

\* The try/catch of the event callback: JSON.parse of the token's value, and
\* the value itself when JSON.parse throws.
EventData(value) ==
    LET r == JSONparse(value)
    IN  IF r.st = "ok" THEN r.v
        ELSE IF r.st = "throw" THEN JStr(value)
        ELSE [t |-> "unsupported"]

\* isMessageOccurrance with the receiver's port index tried before its port.
isMessageOccurranceSwapped(tokens) ==
    LET snd == matchTokens(0, tokens, <<"address", "name">>, "void")
    IN  IF ~snd.ret THEN Null
        ELSE
        LET sport == matchTokens(snd.i, tokens, <<"dot", "name">>, "void")
            sidx == matchTokens(sport.i, tokens, IndexSpecifier, "void")
            rcv == matchTokens(sidx.i, tokens, <<"arrow", "address", "name">>, "void")
        IN  IF ~rcv.ret THEN Null
            ELSE
            LET ridx == matchTokens(rcv.i, tokens, IndexSpecifier, "void")
                rport == matchTokens(ridx.i, tokens, <<"dot", "name">>, "void")
                ev == matchTokens(rport.i, tokens,
                                  <<"colon", "name", "event-with-data">>, "void")
            IN  IF ~ev.ret THEN Null
                ELSE [kind |-> "MessageOccurrance",
                      sender |-> snd.matched[1],
                      senderName |-> JStr(snd.matched[2].text),
                      senderPort |-> IF sport.ret THEN sport.matched[2] ELSE Undefined,
                      senderPortIndex |->
                          IF sidx.ret THEN JNum(sidx.matched[2].num) ELSE Undefined,
                      receiver |-> rcv.matched[2],
                      receiverName |-> JStr(rcv.matched[3].text),
                      receiverPort |-> IF rport.ret THEN rport.matched[2] ELSE Undefined,
                      receiverPortIndex |->
                          IF ridx.ret THEN JNum(ridx.matched[2].num) ELSE Undefined,
                      event |-> ev.matched[2],
                      data |-> EventData(ev.matched[3].value)]

isMessageOccurrance(tokens) ==
    LET snd == matchTokens(0, tokens, <<"address", "name">>, "void")
    IN  IF ~snd.ret THEN Null
        ELSE
        LET sport == matchTokens(snd.i, tokens, <<"dot", "name">>, "void")
            sidx == matchTokens(sport.i, tokens, IndexSpecifier, "void")
            rcv == matchTokens(sidx.i, tokens, <<"arrow", "address", "name">>, "void")
        IN  IF ~rcv.ret THEN Null
            ELSE
            LET rport == matchTokens(rcv.i, tokens, <<"dot", "name">>, "void")
                ridx == matchTokens(rport.i, tokens, IndexSpecifier, "void")
                ev == matchTokens(ridx.i, tokens,
                                  <<"colon", "name", "event-with-data">>, "void")
            IN  IF ~ev.ret THEN Null
                ELSE [kind |-> "MessageOccurrance",
                      sender |-> snd.matched[1],
                      senderName |-> JStr(snd.matched[2].text),
                      senderPort |-> IF sport.ret THEN sport.matched[2] ELSE Undefined,
                      senderPortIndex |->
                          IF sidx.ret THEN JNum(sidx.matched[2].num) ELSE Undefined,
                      receiver |-> rcv.matched[2],
                      receiverName |-> JStr(rcv.matched[3].text),
                      receiverPort |-> IF rport.ret THEN rport.matched[2] ELSE Undefined,
                      receiverPortIndex |->
                          IF ridx.ret THEN JNum(ridx.matched[2].num) ELSE Undefined,
                      event |-> ev.matched[2],
                      data |-> EventData(ev.matched[3].value)]

\* isNote with the token kinds of isInstanceDecl's first clause.
isNoteCopied(tokens) ==
    LET m == matchTokens(0, tokens, <<"kw:instance", "address">>, "void")
    IN  IF ~m.ret THEN Null
        ELSE [kind |-> "Note", text |-> m.matched[2].value]

isNote(tokens) ==
    LET m == matchTokens(0, tokens, <<"kw:note", "string">>, "void")
    IN  IF ~m.ret THEN Null
        ELSE [kind |-> "Note", text |-> m.matched[2].value]

Return(node) == [outcome |-> "return", node |-> node]
Throw == [outcome |-> "throw", node |-> Null]

\* for (let token of tokens) token.line = lineNumber
SetLine(toks, num) == [k \in 1..Len(toks) |-> [toks[k] EXCEPT !.line = num]]

\* parseLine without the note production.
FirstSuccessNoNote(instanceDecl, messageOccurrance, note) ==
    IF instanceDecl # Null THEN Return(instanceDecl)
    ELSE IF messageOccurrance # Null THEN Return(messageOccurrance)
    ELSE Return(Null)

\* The productions are tried in order; the first success is returned.
FirstSuccess(instanceDecl, messageOccurrance, note) ==
    IF instanceDecl # Null THEN Return(instanceDecl)
    ELSE IF messageOccurrance # Null THEN Return(messageOccurrance)
    ELSE IF note # Null THEN Return(note)
    ELSE Return(Null)

TryProductions(tokens) ==
    FirstSuccess(isInstanceDecl(tokens), isMessageOccurrance(tokens), isNote(tokens))

\* The try block of parseLine, given what lexer.tokens() produced: it raises
\* on a lexical error.
ParseTokens(sc, num) ==
    IF ~sc.ok THEN Throw
    ELSE IF Len(sc.toks) = 1 /\ isA(sc.toks[1], "EOF") THEN Return(Null)
    ELSE TryProductions(SetLine(sc.toks, num))

parseLineTry(ln, num) == ParseTokens(initScanner(ln), num)

\* The catch clause of parseLine: any exception becomes null.
CatchSyntaxError(r) == IF r.outcome = "throw" THEN Return(Null) ELSE r

\* parseLine without its catch clause.
parseLineNoCatch(ln, num) == parseLineTry(ln, num)

\* parseLine(line, lineNumber)
parseLine(ln, num) == CatchSyntaxError(parseLineTry(ln, num))

-----------------------------------------------------------------------------
(* TraceParserUtils.                                                       *)

RECURSIVE ExprToStringLoop(_, _, _)
ExprToStringLoop(structureExpr, k, res) ==
    IF k > Len(structureExpr) THEN res
    ELSE LET token == structureExpr[k]
         IN  IF token.isNum
             THEN ExprToStringLoop(structureExpr, k + 1,
                      res \o <<"[">> \o NumToString(token.num) \o <<"]">>)
             ELSE ExprToStringLoop(structureExpr, k + 1,
                      (IF Len(res) > 0 THEN res \o <<".">> ELSE res) \o token.text)

structureExprToString(structureExpr) == ExprToStringLoop(structureExpr, 1, <<>>)

\* How a call of a utility completes: with a boolean, or with the TypeError
\* of reading a property of undefined.
Returns(value) == [outcome |-> "return", value |-> value]
TypeError == [outcome |-> "throw"]

\* astNode.dynamicType.text == name
DynamicTypeIs(astNode, name) ==
    IF astNode.dynamicType = Undefined THEN TypeError
    ELSE Returns(astNode.dynamicType.text = name)

isTopCapsuleInstance(astNode) ==
    IF /\ Len(astNode.structureExpr) = 1
       /\ astNode.structureExpr[1].text = <<"a", "p", "p", "l", "i", "c", "a", "t", "i", "o", "n">>
    THEN Returns(TRUE)
    ELSE Returns(FALSE)

\* str == "Top" && astNode.dynamicType.text == "RTSuperActor"
isSystemInstance(astNode) ==
    IF structureExprToString(astNode.structureExpr) # <<"T", "o", "p">>
    THEN Returns(FALSE)
    ELSE DynamicTypeIs(astNode, <<"R", "T", "S", "u", "p", "e", "r", "A", "c", "t", "o", "r">>)

\* str == "specials" && astNode.dynamicType.text == "RTTimerActor"
isTimerInstance(astNode) ==
    IF structureExprToString(astNode.structureExpr) # <<"s", "p", "e", "c", "i", "a", "l", "s">>
    THEN Returns(FALSE)
    ELSE DynamicTypeIs(astNode, <<"R", "T", "T", "i", "m", "e", "r", "A", "c", "t", "o", "r">>)

-----------------------------------------------------------------------------
(* The lines given to parseLine.  A line is written from a shape: the       *)
(* pieces of one of the three line forms, each piece drawn from a small    *)
(* set holding well-formed and malformed variants.  The shape is kept      *)
(* beside the line so that a property can speak of the text it was written *)
(* from.                                                                   *)

MaxPath == 2   \* path elements of a generated instance line

Sp == <<" ">>
Dot == <<".">>
Empty == <<>>

\* One element of an instance path: separator, name, index specifier.
ElemNames == {<<"a">>, <<"b", "1">>, <<"n", "o", "t", "e", "A">>, Empty}
ElemIdx == {Empty, <<"[", "2", "]">>, <<"[", "0", "2", "]">>}
Elems == [sep : {Dot, Sp}, name : ElemNames, idx : ElemIdx]

RECURSIVE PathsOfLen(_)
PathsOfLen(n) ==
    IF n = 0 THEN {<<>>}
    ELSE {Append(p, e) : p \in PathsOfLen(n - 1), e \in Elems}
Paths == UNION {PathsOfLen(n) : n \in 0..MaxPath}

TypeX == <<"T", "y", "p", "e", "X">>
TypeClauses == {Empty, <<":", " ", "T", "y", "p", "e", "X">>, <<":", "T", "y", "p", "e", "X">>, <<":">>, <<":", " ", "T", "y", "p", "e", "X", " ", "U">>, <<":", " ", "n", "o", "t", "e", "T">>}
ThreadPayload == <<" ", "{", "\"", "t", "h", "r", "e", "a", "d", "_", "n", "a", "m", "e", "\"", ":", "\"", "t", "1", "\"", "}">>
InstanceTrails == {Empty, ThreadPayload, <<" ", "{", "\"", "t", "h", "r", "e", "a", "d", "_", "n", "a", "m", "e", "\"", ":">>, <<" ", "/", "/", " ", "c">>}
Addresses == {<<"0", "x", "1">>, <<"0", "x", "2", "f">>}

InstanceShapes ==
    {[family |-> "instance", kw |-> KwInstance, addr |-> <<"0", "x", "1">>,
      path |-> p, type |-> ty, trail |-> Empty] :
        p \in Paths, ty \in {Empty, <<":", " ", "T", "y", "p", "e", "X">>}}
    \cup
    {[family |-> "instance", kw |-> kw, addr |-> a,
      path |-> p, type |-> ty, trail |-> tr] :
        kw \in {KwInstance, <<"I", "n", "s", "t", "a", "n", "c", "e">>}, a \in Addresses \cup {<<"0", "x">>},
        p \in {q \in PathsOfLen(1) : q[1].sep = Sp /\ q[1].name # Empty},
        ty \in TypeClauses, tr \in InstanceTrails}

\* The text of a path: the first element's separator is the blank after the
\* address and is no part of the path.
RECURSIVE PathText(_)
PathText(p) ==
    IF p = <<>> THEN <<>>
    ELSE PathText(SubSeq(p, 1, Len(p) - 1))
         \o (IF Len(p) = 1 THEN <<>> ELSE p[Len(p)].sep)
         \o p[Len(p)].name \o p[Len(p)].idx

InstanceText(sh) ==
    sh.kw \o Sp \o sh.addr
    \o (IF sh.path = <<>> THEN <<>> ELSE sh.path[1].sep \o PathText(sh.path))
    \o sh.type \o sh.trail

PortClauses == {Empty, <<".", "p">>, <<"[", "1", "]">>, <<".", "p", "[", "1", "]">>, <<"[", "1", "]", ".", "p">>, <<".">>}
Payloads == {<<"(", "x", ")">>, <<"(", ")">>, <<"(", "x">>, <<"(">>, <<"(", "a", ")", "b", ")">>, Empty,
             <<"(", "{", "\"", "t", "i", "m", "e", "2", "_", "r", "e", "c", "e", "i", "v", "e", "\"", ":", "1", "}", ")">>,
             <<"(", "{", "\"", "t", "i", "m", "e", "2", "_", "r", "e", "c", "e", "i", "v", "e", "\"", ":", "2", ",", "\"", "t", "i", "m", "e", "3", "_", "h", "a", "n", "d", "l", "e", "\"", ":", "3", "}", ")">>,
             <<"(", "{", "\"", "t", "i", "m", "e", "2", "_", "r", "e", "c", "e", "i", "v", "e", "\"", ":", "1", "}">>,
             <<"(", ")", "{", "\"", "t", "i", "m", "e", "2", "_", "r", "e", "c", "e", "i", "v", "e", "\"", ":", "1", "0", "0", ",", "\"", "t", "i", "m", "e", "3", "_", "h", "a", "n", "d", "l", "e", "\"", ":", "1", "5", "0", "}">>,
             <<"(", "n", "u", "l", "l", ")">>, <<"(", "1", "2", ")">>, <<"(", "\"", "s", "\"", ")">>, <<"(", "{", "\"", "a", "\"", ":", ")">>}

MessageShapes ==
    [family : {"message"}, sname : {<<"A", "p", "p">>, <<"n", "o", "t", "e", "B">>}, sport : PortClauses,
     arrow : {<<" ", "-", ">", " ">>, Sp}, rport : PortClauses,
     colon : {<<":", " ", "e", "v", "t">>, <<" ", "e", "v", "t">>, <<":">>}, payload : Payloads]

MessageText(sh) ==
    <<"0", "x", "1", " ">> \o sh.sname \o sh.sport \o sh.arrow \o <<"0", "x", "2", " ", "B", "o", "b">> \o sh.rport
    \o sh.colon \o sh.payload

NoteTexts == {<<"h", "i">>, Empty, <<"a", "\\", "\"", "b">>, <<"a", "\"", " ", "\"", "b">>}
TimePayload == <<" ", "{", "\"", "t", "i", "m", "e", "\"", ":", "5", "}">>
NoteTrails == {Empty, TimePayload, <<" ", "{", "\"", "t", "i", "m", "e", "\"", ":">>, <<" ", "x">>, <<" ", "/", "/", " ", "c">>}

NoteShapes ==
    [family : {"note"}, kw : {KwNote, <<"n", "o", "t", "e", "s">>}, text : NoteTexts,
     trail : NoteTrails]

NoteLineText(sh) == sh.kw \o Sp \o <<"\"">> \o sh.text \o <<"\"">> \o sh.trail

\* Blank lines, comments and lines of no form.
MiscTexts == {Empty, <<" ", " ", " ">>, <<"/", "/", " ", "a", " ", "c", "o", "m", "m", "e", "n", "t">>, <<" ", " ", "/", "/", " ", "{">>, <<"#">>, <<"-">>,
              <<"a">>, <<"0", "x", "1">>, <<"-", ">">>, <<"i", "n", "s", "t", "a", "n", "c", "e">>, <<"n", "o", "t", "e">>, <<"\"">>,
              <<"0", "x", "1", " ", "a", " ", "-", ">", " ">>, <<"1", "2", " ", ":", " ", "(", " ">>, <<"i", "n", "s", "t", "a", "n", "c", "e", " ", "0", "x", "1", " ", "a", " ", "$">>}

MiscShapes == [family : {"misc"}, text : MiscTexts]

Shapes == InstanceShapes \cup MessageShapes \cup NoteShapes \cup MiscShapes

TextOf(sh) ==
    CASE sh.family = "instance" -> InstanceText(sh)
      [] sh.family = "message" -> MessageText(sh)
      [] sh.family = "note" -> NoteLineText(sh)
      [] OTHER -> sh.text

-----------------------------------------------------------------------------
(* parseLine applied to one line.                                          *)

NoResult == [outcome |-> "none", node |-> Null]
NoCall == [ret |-> FALSE, i |-> 0, calls |-> 0, matched |-> <<>>,
           i0 |-> 0, tokens |-> <<>>, tokenKinds |-> <<>>, res |-> "void"]
NoSorter == [messages |-> <<>>, sorted |-> <<>>, startIndex |-> 0,
             result |-> <<>>, i |-> 0]
NoParser == [accumulating |-> FALSE, text |-> <<>>,
             traceConfiguration |-> Undefined, diagnostics |-> 0]

LineNumbers == {0, 7}

Init ==
    /\ pc = "start"
    /\ shape \in Shapes
    /\ line = TextOf(shape)
    /\ lineNumber \in LineNumbers
    /\ result = NoResult
    /\ mt = NoCall
    /\ file = <<>>
    /\ sorter = NoSorter
    /\ parser = NoParser

\* A caller passes the line to parseLine and receives its result.
ParseLine ==
    /\ pc = "start"
    /\ result' = parseLine(line, lineNumber)
    /\ pc' = "done"
    /\ UNCHANGED <<shape, line, lineNumber, mt, file, sorter, parser>>

Next == ParseLine

Spec == Init /\ [][Next]_vars
-----------------------------------------------------------------------------
(* matchTokens applied at any cursor of a scanned line.                    *)

\* The token sequence parseLine hands to the productions.
TokensOf(ln, num) == SetLine(initScanner(ln).toks, num)

\* The tokenKinds arguments of the calls in the three productions.
KindLists ==
    {<<"kw:instance", "address">>, <<"name">>, <<"dot">>, IndexSpecifier,
     <<"colon">>, <<"EOF">>, <<"colon", "name">>, <<"address", "name">>,
     <<"dot", "name">>, <<"arrow", "address", "name">>,
     <<"colon", "name", "event-with-data">>, <<"kw:note", "string">>}

MatchShapes ==
    {sh \in InstanceShapes :
        /\ Len(sh.path) = 1 /\ sh.trail = Empty /\ Len(sh.addr) = 3
        /\ Len(sh.type) \in {0, 7}}
    \cup {sh \in MessageShapes :
            /\ Len(sh.sname) = 3 /\ Len(sh.payload) \in {0, 3}
            /\ Len(sh.sport) \in {0, 5} /\ Len(sh.rport) = 0
            /\ Len(sh.colon) > 1}
    \cup {sh \in NoteShapes : Len(sh.text) = 2}
    \cup MiscShapes

InitMatch ==
    /\ pc = "start"
    /\ shape \in MatchShapes
    /\ line = TextOf(shape)
    /\ initScanner(line).ok
    /\ lineNumber = 0
    /\ result = NoResult
    /\ mt = NoCall
    /\ file = <<>>
    /\ sorter = NoSorter
    /\ parser = NoParser

\* A production calls matchTokens with the cursor at i.
MatchTokens ==
    /\ pc = "start"
    /\ LET tokens == TokensOf(line, lineNumber)
       IN  \E i \in 0..Len(tokens), tokenKinds \in KindLists,
              res \in {"false", "void"} :
              mt' = [i0 |-> i, tokens |-> tokens,
                     tokenKinds |-> tokenKinds, res |-> res]
                    @@ matchTokens(i, tokens, tokenKinds, res)
    /\ pc' = "matched"
    /\ UNCHANGED <<shape, line, lineNumber, result, file, sorter, parser>>

NextMatch == MatchTokens

SpecMatch == InitMatch /\ [][NextMatch]_vars

-----------------------------------------------------------------------------
(* Properties of parseLine and matchTokens.                                *)

FactKinds == {"InstanceDecl", "MessageOccurrance", "Note"}

\* C1: for every line and line number parseLine completes by returning an
\* InstanceDecl, a MessageOccurrance, a Note or null; it never raises, also
\* when the line fails lexically, carries a malformed payload or matches no
\* production.
ParseLineNeverRaises ==
    pc = "done" =>
        /\ result.outcome = "return"
        /\ result.node.kind \in FactKinds \cup {"null"}

\* A line that fails lexically has been parsed, and parseLine returned null.
ParseLineLexicalFailure ==
    /\ pc = "done"
    /\ ~initScanner(line).ok
    /\ result = Return(Null)

\* What the kinds of a tokenKinds argument ask of a token.
KindOk(token, kind) ==
    CASE kind = "kw:instance" -> token.type = "keyword" /\ token.value = KwInstance
      [] kind = "kw:note" -> token.type = "keyword" /\ token.value = KwNote
      [] OTHER -> token.type = kind

\* C4: matchTokens returns true exactly when at least |kinds| tokens remain
\* from the cursor and each has the expected kind (and keyword value).  On
\* false the cursor is unchanged and onMatch is not called; on true onMatch
\* is called once with the matched slice and the cursor advances by |kinds|,
\* unless onMatch returned false, and then the cursor is unchanged.
MatchTokensContract ==
    pc = "matched" =>
        LET n == Len(mt.tokenKinds)
            expected ==
                /\ Len(mt.tokens) - mt.i0 >= n
                /\ \A j \in 1..n : KindOk(mt.tokens[mt.i0 + j], mt.tokenKinds[j])
        IN  /\ mt.ret <=> expected
            /\ ~mt.ret => mt.i = mt.i0 /\ mt.calls = 0
            /\ mt.ret =>
                /\ mt.calls = 1
                /\ mt.matched = SubSeq(mt.tokens, mt.i0 + 1, mt.i0 + n)
                /\ mt.i = IF mt.res = "false" THEN mt.i0 ELSE mt.i0 + n

\* A match of the last tokens of the sequence whose callback declined to
\* consume them.
MatchTokensPeeked ==
    /\ pc = "matched"
    /\ mt.ret /\ mt.res = "false" /\ mt.i = mt.i0 /\ mt.i0 > 0
    /\ mt.i0 + Len(mt.tokenKinds) = Len(mt.tokens)

\* An instance line of the form 'instance <address> <path>[: <Type>]'.
TypeOfClause(ty) ==
    IF ty \in {<<":", " ", "T", "y", "p", "e", "X">>, <<":", "T", "y", "p", "e", "X">>} THEN TypeX
    ELSE IF ty = <<":", " ", "n", "o", "t", "e", "T">> THEN <<"n", "o", "t", "e", "T">> ELSE Empty

WellFormedInstance(sh) ==
    /\ sh.family = "instance"
    /\ sh.kw = KwInstance
    /\ sh.addr \in Addresses
    /\ Len(sh.path) >= 1
    /\ sh.path[1].sep = Sp
    /\ \A k \in 2..Len(sh.path) : sh.path[k].sep = Dot
    /\ \A k \in 1..Len(sh.path) : sh.path[k].name # Empty
    /\ sh.type = Empty \/ TypeOfClause(sh.type) # Empty

\* C5: for every well-formed instance line parseLine returns an InstanceDecl
\* whose path renders, by structureExprToString, exactly as the path was
\* written, and whose dynamic type is the type written, when one is.
InstanceRoundTrip ==
    (pc = "done" /\ WellFormedInstance(shape) /\ shape.trail = Empty) =>
        /\ result.node.kind = "InstanceDecl"
        /\ structureExprToString(result.node.structureExpr) = PathText(shape.path)
        /\ shape.type # Empty =>
            /\ result.node.dynamicType # Undefined
            /\ result.node.dynamicType.text = TypeOfClause(shape.type)

\* The token types of a message line: the optional clauses are present as
\* the four flags say.
MessageForm(sp, si, rp, ri) ==
    <<"address", "name">>
    \o (IF sp THEN <<"dot", "name">> ELSE <<>>)
    \o (IF si THEN IndexSpecifier ELSE <<>>)
    \o <<"arrow", "address", "name">>
    \o (IF rp THEN <<"dot", "name">> ELSE <<>>)
    \o (IF ri THEN IndexSpecifier ELSE <<>>)
    \o <<"colon", "name", "event-with-data", "EOF">>

TypesOf(tokens) == [k \in 1..Len(tokens) |-> tokens[k].type]

\* C6: a MessageOccurrance is returned exactly when the tokens are: address
\* name, optional dot name, optional index, arrow address name, optional dot
\* name, optional index, colon name event payload; otherwise the production
\* yields nothing.  In a returned occurrence sender, senderName, receiver,
\* receiverName and event are set, and each port name and port index is set
\* exactly when its clause was present on that side of the arrow.
MessageOccurranceGrammar ==
    pc = "done" =>
        LET sc == initScanner(line)
            types == TypesOf(sc.toks)
            m == result.node
        IN  /\ (m.kind = "MessageOccurrance") <=>
                    (sc.ok /\ \E sp, si, rp, ri \in BOOLEAN :
                                types = MessageForm(sp, si, rp, ri))
            /\ m.kind = "MessageOccurrance" =>
                \A sp, si, rp, ri \in BOOLEAN :
                    types = MessageForm(sp, si, rp, ri) =>
                        /\ m.sender # Undefined /\ m.sender.type = "address"
                        /\ m.senderName # Undefined
                        /\ m.receiver # Undefined /\ m.receiver.type = "address"
                        /\ m.receiverName # Undefined
                        /\ m.event # Undefined /\ m.event.type = "name"
                        /\ (m.senderPort # Undefined) <=> sp
                        /\ (m.senderPortIndex # Undefined) <=> si
                        /\ (m.receiverPort # Undefined) <=> rp
                        /\ (m.receiverPortIndex # Undefined) <=> ri

\* An occurrence with a sender port without index and a receiver index
\* without port.
MessageOccurranceMixedPorts ==
    /\ pc = "done"
    /\ result.node.kind = "MessageOccurrance"
    /\ result.node.senderPort # Undefined
    /\ result.node.senderPortIndex = Undefined
    /\ result.node.receiverPort = Undefined
    /\ result.node.receiverPortIndex # Undefined

\* Position of the first c in s; 0 when there is none.
FirstIndexOf(s, c) ==
    LET hits == {j \in 1..Len(s) : s[j] = c}
    IN  IF hits = {} THEN 0 ELSE CHOOSE j \in hits : \A k \in hits : j <= k

GoodPayload == <<"(", "{", "\"", "t", "i", "m", "e", "2", "_", "r", "e", "c", "e", "i", "v", "e", "\"", ":", "1", "}", ")">>

\* C7: for every message line that parses, the payload is the structured
\* value when the event token's text is well-formed JSON and that text
\* verbatim otherwise; without a closing parenthesis the text is all that
\* follows the opening one.  A payload that fails to parse does not make the
\* line yield no fact: the line yields what it yields with a well-formed one.
PayloadStructuredOrVerbatim ==
    pc = "done" =>
        /\ result.node.kind = "MessageOccurrance" =>
            LET tokens == TokensOf(line, lineNumber)
                text == tokens[Len(tokens) - 1].value
                open == FirstIndexOf(line, "(")
            IN  /\ result.node.data =
                      IF JSONparse(text).st = "ok" THEN JSONparse(text).v
                      ELSE JStr(text)
                /\ LastIndexOf(line, ")") = 0 =>
                      text = SubSeq(line, open + 1, Len(line))
        /\ (shape.family = "message" /\ shape.payload # Empty) =>
            result.node.kind =
                parseLine(TextOf([shape EXCEPT !.payload = GoodPayload]),
                          lineNumber).node.kind

\* A message line without a closing parenthesis whose text is not JSON has
\* been parsed into an occurrence that carries the text.
PayloadKeptVerbatim ==
    /\ pc = "done"
    /\ result.node.kind = "MessageOccurrance"
    /\ LastIndexOf(line, ")") = 0
    /\ result.node.data = JStr(<<"x">>)

Time2Receive == <<"t", "i", "m", "e", "2", "_", "r", "e", "c", "e", "i", "v", "e">>
Time3Handle == <<"t", "i", "m", "e", "3", "_", "h", "a", "n", "d", "l", "e">>

WellFormedMessageHead(sh) ==
    /\ sh.family = "message"
    /\ sh.sname = <<"A", "p", "p">>
    /\ sh.sport \in {Empty, <<".", "p">>, <<"[", "1", "]">>, <<".", "p", "[", "1", "]">>}
    /\ sh.arrow = <<" ", "-", ">", " ">>
    /\ sh.rport \in {Empty, <<".", "p">>, <<"[", "1", "]">>, <<".", "p", "[", "1", "]">>}
    /\ sh.colon = <<":", " ", "e", "v", "t">>

\* C8: a message line whose event has a parameter text in parentheses
\* followed by a structured payload giving time2_receive and time3_handle
\* yields an occurrence exposing both timestamps (receive 100, handle 150).
TimestampsAfterParameters ==
    (/\ pc = "done"
     /\ WellFormedMessageHead(shape)
     /\ shape.payload = <<"(", ")", "{", "\"", "t", "i", "m", "e", "2", "_", "r", "e", "c", "e", "i", "v", "e", "\"", ":", "1", "0", "0", ",", "\"", "t", "i", "m", "e", "3", "_", "h", "a", "n", "d", "l", "e", "\"", ":", "1", "5", "0", "}">>) =>
        /\ result.node.kind = "MessageOccurrance"
        /\ PropGet(result.node.data, Time2Receive) = [st |-> "ok", v |-> JNum(100)]
        /\ PropGet(result.node.data, Time3Handle) = [st |-> "ok", v |-> JNum(150)]

\* C10: a trailing brace-delimited payload, well-formed or not, never keeps
\* a well-formed instance or note line from yielding its InstanceDecl or Note.
TrailingPayloadKeepsFact ==
    pc = "done" =>
        /\ (/\ WellFormedInstance(shape)
            /\ shape.trail \in {ThreadPayload, <<" ", "{", "\"", "t", "h", "r", "e", "a", "d", "_", "n", "a", "m", "e", "\"", ":">>}) =>
                result.node.kind = "InstanceDecl"
        /\ (/\ shape.family = "note" /\ shape.kw = KwNote
            /\ shape.text = <<"h", "i">>
            /\ shape.trail \in {TimePayload, <<" ", "{", "\"", "t", "i", "m", "e", "\"", ":">>}) =>
                result.node.kind = "Note"

\* Every payload the lines carry lies in the part of JSON that JSONparse
\* models.
PayloadsModelled ==
    (pc = "done" /\ result.node.kind = "MessageOccurrance") =>
        result.node.data.t # "unsupported"

-----------------------------------------------------------------------------
(* sortOnReceiveTime (src/samples/sortOnReceiveTime.ts) over a whole file. *)

MaxFile == 4   \* lines of a generated file

\* The lines of the generated files: messages with receive times 1, 1 and 2,
\* a message without timestamps, one whose payload is null, a note and a
\* blank line.
SortLines ==
    {<<"0", "x", "1", " ", "A", " ", "-", ">", " ", "0", "x", "2", " ", "B", ":", " ", "a", "(", "{", "\"", "t", "i", "m", "e", "2", "_", "r", "e", "c", "e", "i", "v", "e", "\"", ":", "1", "}", ")">>,
     <<"0", "x", "1", " ", "A", " ", "-", ">", " ", "0", "x", "2", " ", "B", ":", " ", "b", "(", "{", "\"", "t", "i", "m", "e", "2", "_", "r", "e", "c", "e", "i", "v", "e", "\"", ":", "1", "}", ")">>,
     <<"0", "x", "1", " ", "A", " ", "-", ">", " ", "0", "x", "2", " ", "B", ":", " ", "c", "(", "{", "\"", "t", "i", "m", "e", "2", "_", "r", "e", "c", "e", "i", "v", "e", "\"", ":", "2", "}", ")">>,
     <<"0", "x", "1", " ", "A", " ", "-", ">", " ", "0", "x", "2", " ", "B", ":", " ", "u", "(", "x", ")">>,
     <<"0", "x", "1", " ", "A", " ", "-", ">", " ", "0", "x", "2", " ", "B", ":", " ", "z", "(", "n", "u", "l", "l", ")">>,
     <<"n", "o", "t", "e", " ", "\"", "n", "\"">>,
     Empty}

RECURSIVE FilesOfLen(_)
FilesOfLen(n) ==
    IF n = 0 THEN {<<>>}
    ELSE {Append(f, l) : f \in FilesOfLen(n - 1), l \in SortLines}
Files == UNION {FilesOfLen(n) : n \in 0..MaxFile}

\* new Message(receiveTime, msg)
Message(receiveTime, msg) == [receiveTime |-> receiveTime, msg |-> msg]

\* The body of the first for-await loop for a line with its astNode and
\* the value t of astNode.data.time2_receive: the messages afterwards.
FirstPassPush(messages, ln, t) ==
    IF t.v # Undefined THEN Append(messages, Message(t.v, ln)) ELSE messages

\* The first for-await loop from line k on: [st, messages, i]; st = "throw"
\* is the TypeError of reading time2_receive of a null payload.
RECURSIVE FirstPassLoop(_, _, _, _)
RECURSIVE FirstPassLine(_, _, _, _, _)
FirstPassLoop(lines, k, i, messages) ==
    IF k > Len(lines) THEN [st |-> "ok", messages |-> messages, i |-> i]
    ELSE FirstPassLine(lines, k, i, messages, parseLine(lines[k], i).node)

FirstPassLine(lines, k, i, messages, astNode) ==
    IF astNode.kind # "MessageOccurrance"
    THEN FirstPassLoop(lines, k + 1, i + 1, messages)
    ELSE IF astNode.data.t \in {"null", "undefined"}
    THEN [st |-> "throw", messages |-> messages, i |-> i + 1]
    ELSE FirstPassLoop(lines, k + 1, i + 1,
             FirstPassPush(messages, lines[k], PropGet(astNode.data, Time2Receive)))

\* The comparator with its operands exchanged.
CompareReversed(a, b) == b.receiveTime.n - a.receiveTime.n

\* a.receiveTime - b.receiveTime for the numbers the generated lines carry.
Compare(a, b) == a.receiveTime.n - b.receiveTime.n

\* An unstable sort: x is inserted before the elements that compare equal.
InsertSortedBeforeTies(s, x) ==
    LET before == {j \in 1..Len(s) : Compare(s[j], x) >= 0}
        at == IF before = {} THEN Len(s) + 1
              ELSE CHOOSE j \in before : \A k \in before : j <= k
    IN  SubSeq(s, 1, at - 1) \o <<x>> \o SubSeq(s, at, Len(s))

\* Array.prototype.sort with that comparator: a stable sort.  x is inserted
\* behind every element that does not compare greater than it.
InsertSorted(s, x) ==
    LET before == {j \in 1..Len(s) : Compare(s[j], x) > 0}
        at == IF before = {} THEN Len(s) + 1
              ELSE CHOOSE j \in before : \A k \in before : j <= k
    IN  SubSeq(s, 1, at - 1) \o <<x>> \o SubSeq(s, at, Len(s))

RECURSIVE SortLoop(_, _)
SortLoop(s, acc) ==
    IF s = <<>> THEN acc ELSE SortLoop(Tail(s), InsertSorted(acc, Head(s)))

ArraySort(messages) == SortLoop(messages, <<>>)

\* The inner for loop: the first index >= startIndex (0-based) at which
\* sorted holds the line; Len(sorted) when there is none.
RECURSIVE FindIndex(_, _, _)
FindIndex(sorted, index, ln) ==
    IF ~(index < Len(sorted)) THEN index
    ELSE IF sorted[index + 1].msg = ln THEN index
    ELSE FindIndex(sorted, index + 1, ln)

\* The message branch of the second loop's body: the slice of sorted from
\* startIndex to the index found is appended, when the line was found.
\* [result, startIndex]
EmitSlice(sorted, startIndex, res, index) ==
    IF index < Len(sorted)
    THEN [result |-> res \o [j \in 1..(index + 1 - startIndex) |->
                                 sorted[startIndex + j].msg],
          startIndex |-> index + 1]
    ELSE [result |-> res, startIndex |-> startIndex]

\* The body of the second for-await loop for a line with its astNode.
SecondPassLine(ln, sorted, st, astNode) ==
    IF astNode.kind = "MessageOccurrance"
    THEN EmitSlice(sorted, st.startIndex, st.result,
                   FindIndex(sorted, st.startIndex, ln))
    ELSE [result |-> Append(st.result, ln), startIndex |-> st.startIndex]

\* The second for-await loop from line k on: [result, startIndex].
RECURSIVE SecondPassLoop(_, _, _, _, _)
SecondPassLoop(lines, k, i, sorted, st) ==
    IF k > Len(lines) THEN st
    ELSE SecondPassLoop(lines, k + 1, i + 1, sorted,
             SecondPassLine(lines[k], sorted, st, parseLine(lines[k], i).node))

InitSort ==
    /\ pc = "start"
    /\ file \in Files
    /\ sorter = NoSorter
    /\ shape = [family |-> "misc", text |-> Empty]
    /\ line = <<>>
    /\ lineNumber = 0
    /\ result = NoResult
    /\ mt = NoCall
    /\ parser = NoParser

\* The locals after the first loop, and where the function goes on.
AfterFirstPass(r) ==
    /\ sorter' = [sorter EXCEPT !.messages = r.messages, !.i = r.i]
    /\ pc' = IF r.st = "throw" \/ Len(r.messages) = 0 THEN "done" ELSE "read"

\* Lines 47-62: the file is read and the messages with a receive time are
\* collected; without any, or on an exception, the function returns result.
FirstPass ==
    /\ pc = "start"
    /\ AfterFirstPass(FirstPassLoop(file, 1, 0, <<>>))
    /\ UNCHANGED <<shape, line, lineNumber, result, mt, file, parser>>

AfterSort(sorted) ==
    sorter' = [sorter EXCEPT !.messages = sorted, !.sorted = sorted]

\* Line 64: messages.sort(...), in place.
Sort ==
    /\ pc = "read"
    /\ AfterSort(ArraySort(sorter.messages))
    /\ pc' = "sorted"
    /\ UNCHANGED <<shape, line, lineNumber, result, mt, file, parser>>

AfterSecondPass(r) ==
    sorter' = [sorter EXCEPT !.result = r.result, !.startIndex = r.startIndex,
                             !.i = sorter.i + Len(file)]

\* Lines 66-90: the file is read again and the result is built and returned.
SecondPass ==
    /\ pc = "sorted"
    /\ AfterSecondPass(SecondPassLoop(file, 1, sorter.i, sorter.sorted,
                                      [result |-> <<>>, startIndex |-> 0]))
    /\ pc' = "done"
    /\ UNCHANGED <<shape, line, lineNumber, result, mt, file, parser>>

NextSort == FirstPass \/ Sort \/ SecondPass

SpecSort == InitSort /\ [][NextSort]_vars

\* What parseLine makes of each line the files are written from.
FactOfLine == [l \in SortLines |-> parseLine(l, 0).node]

IsMessageLine(ln) == FactOfLine[ln].kind = "MessageOccurrance"

IsTimestamped(ln) ==
    /\ IsMessageLine(ln)
    /\ PropGet(FactOfLine[ln].data, Time2Receive).st = "ok"
    /\ PropGet(FactOfLine[ln].data, Time2Receive).v # Undefined

ReceiveTime(ln) == PropGet(FactOfLine[ln].data, Time2Receive).v.n

\* C2: when the sorter returns, every line that is no message occurrence
\* appears in the output at the index it had in the input; stated for the
\* files whose timestamped messages the second loop has placed.
SorterLocality ==
    (pc = "done" /\ sorter.sorted # <<>>) =>
        \A k \in 1..Len(file) :
            ~IsMessageLine(file[k]) =>
                /\ k <= Len(sorter.result)
                /\ sorter.result[k] = file[k]

\* How often x occurs in s between positions a and b.
Count(s, a, b, x) == Cardinality({j \in a..b : s[j] = x})

\* a..b is a maximal run of timestamped message lines of f.
IsRun(f, a, b) ==
    /\ a <= b
    /\ \A j \in a..b : IsTimestamped(f[j])
    /\ a = 1 \/ ~IsTimestamped(f[a - 1])
    /\ b = Len(f) \/ ~IsTimestamped(f[b + 1])

\* C3: for every maximal run of timestamped message lines of the input the
\* output holds, at the run's place, the same multiset of lines ordered by
\* timestamp; stated for the files whose timestamped messages the second
\* loop has placed.
SorterBlocks ==
    (pc = "done" /\ sorter.sorted # <<>>) =>
        \A a, b \in 1..Len(file) :
            IsRun(file, a, b) =>
                /\ b <= Len(sorter.result)
                /\ \A j \in a..b :
                       Count(sorter.result, a, b, file[j]) = Count(file, a, b, file[j])
                /\ \A j \in a..(b - 1) :
                       ReceiveTime(sorter.result[j]) <= ReceiveTime(sorter.result[j + 1])

-----------------------------------------------------------------------------
(* Order and content of the sorter's output.                               *)

\* The receive times the generated lines carry.
Times == {ReceiveTime(l) : l \in {x \in SortLines : IsTimestamped(x)}}

\* The message lines of s with receive time t, in their order in s.
SelectTime(s, t) ==
    LET Test(l) == IsTimestamped(l) /\ ReceiveTime(l) = t
    IN  SelectSeq(s, Test)

IsPrefix(p, s) == Len(p) <= Len(s) /\ SubSeq(s, 1, Len(p)) = p

\* C11: the message lines with one receive time are in the output in the
\* order they have in the input: all of them when the second loop has run,
\* and never in another order.
SorterStability ==
    pc = "done" =>
        \A t \in Times :
            /\ IsPrefix(SelectTime(sorter.result, t), SelectTime(file, t))
            /\ sorter.sorted # <<>> =>
                   SelectTime(sorter.result, t) = SelectTime(file, t)

\* Two different lines with the same receive time stand behind a later
\* message in the file, and the sorter has moved them in front of it.
SorterTieMoved ==
    /\ pc = "done"
    /\ sorter.sorted # <<>>
    /\ \E i, p, q \in 1..Len(file) :
        /\ i < p /\ p < q
        /\ IsTimestamped(file[i]) /\ IsTimestamped(file[p]) /\ IsTimestamped(file[q])
        /\ file[p] # file[q]
        /\ ReceiveTime(file[p]) = ReceiveTime(file[q])
        /\ ReceiveTime(file[i]) > ReceiveTime(file[p])
        /\ sorter.result[1] = file[p]
        /\ sorter.result[2] = file[q]

\* The timestamped message lines of f are in nondecreasing order.
InTimeOrder(f) ==
    \A p, q \in 1..Len(f) :
        (p < q /\ IsTimestamped(f[p]) /\ IsTimestamped(f[q])) =>
            ReceiveTime(f[p]) <= ReceiveTime(f[q])

\* What sortOnReceiveTime returns for the lines of a file, given what its
\* first loop has collected.
SorterOutput(lines, r) ==
    IF r.st = "throw" \/ Len(r.messages) = 0 THEN <<>>
    ELSE SecondPassLoop(lines, 1, r.i, ArraySort(r.messages),
                        [result |-> <<>>, startIndex |-> 0]).result

\* C12: for a file whose message lines are in nondecreasing order of the
\* receive time the output is the input, and the sorter applied to its own
\* output returns that output.
SorterIdempotence ==
    pc = "done" =>
        /\ InTimeOrder(file) => sorter.result = file
        /\ SorterOutput(sorter.result,
                        FirstPassLoop(sorter.result, 1, 0, <<>>)) = sorter.result

\* C13: when no message line of the file carries a receive time the sorter
\* returns the lines of the file, unchanged and in their order.
SorterNoTimestamps ==
    (pc = "done" /\ \A k \in 1..Len(file) : ~IsTimestamped(file[k])) =>
        sorter.result = file

\* C17: for a file with a timestamped message, the message lines of the
\* output, taken over the whole output, are in nondecreasing order of their
\* receive time.
SorterGlobalOrder ==
    (pc = "done" /\ \E k \in 1..Len(file) : IsTimestamped(file[k])) =>
        /\ InTimeOrder(sorter.result)
        /\ \A p \in 1..Len(sorter.result) :
               IsMessageLine(sorter.result[p]) => IsTimestamped(sorter.result[p])

\* The output differs from the input and holds two messages, the later one
\* behind a line that is no message.
SorterOrderAcrossLines ==
    /\ pc = "done"
    /\ sorter.result # file
    /\ \E p, r, q \in 1..Len(sorter.result) :
        /\ p < r /\ r < q
        /\ IsTimestamped(sorter.result[p])
        /\ ~IsMessageLine(sorter.result[r])
        /\ IsTimestamped(sorter.result[q])
        /\ ReceiveTime(sorter.result[p]) < ReceiveTime(sorter.result[q])

\* C20: the output is a permutation of the lines of the file: every line is
\* in the output as often as in the file; stated for the files whose
\* timestamped messages the second loop has placed.
SorterPermutation ==
    (pc = "done" /\ sorter.sorted # <<>>) =>
        /\ Len(sorter.result) = Len(file)
        /\ \A l \in SortLines :
               Count(sorter.result, 1, Len(sorter.result), l)
                   = Count(file, 1, Len(file), l)

-----------------------------------------------------------------------------
(* TraceParser: the parser object the samples create (new TraceParser(),   *)
(* traceParser.parseLine, traceParser.traceConfiguration).  The class is   *)
(* not among the sources; its configuration accumulator follows sections   *)
(* 3, 4.1 and 6 of the specification, and its parseLine parses the line as *)
(* the parseLine above does.                                               *)

MaxFeed == 5   \* lines fed to one TraceParser

\* String.prototype.trim for the blanks the lines carry.
RECURSIVE TrimLeft(_)
TrimLeft(s) ==
    IF s # <<>> /\ s[1] \in WhiteSpace THEN TrimLeft(Tail(s)) ELSE s
RECURSIVE TrimRight(_)
TrimRight(s) ==
    IF s # <<>> /\ s[Len(s)] \in WhiteSpace
    THEN TrimRight(SubSeq(s, 1, Len(s) - 1)) ELSE s
Trim(s) == TrimLeft(TrimRight(s))

\* A comment line: nothing but blanks before the //.
IsCommentLine(ln) == HasPrefix(TrimLeft(ln), 1, <<"/", "/">>)

\* The content of a comment line: what follows the //, trimmed.
CommentBody(ln) == Trim(SubSeq(TrimLeft(ln), 3, Len(TrimLeft(ln))))

\* CloseBlock without the assignment of the parsed value.
CloseBlockUnassigned(p, text) ==
    [accumulating |-> FALSE, text |-> <<>>,
     traceConfiguration |-> p.traceConfiguration,
     diagnostics |-> p.diagnostics]

\* The end of a block: the accumulated text is parsed, the value is
\* assigned on success, a diagnostic is emitted on failure, and the
\* accumulator is reset either way.
CloseBlock(p, text) ==
    LET r == JSONparse(text)
    IN  [accumulating |-> FALSE, text |-> <<>>,
         traceConfiguration |->
             IF r.st = "ok" THEN r.v ELSE p.traceConfiguration,
         diagnostics |-> IF r.st = "ok" THEN p.diagnostics ELSE p.diagnostics + 1]

\* The effect of scanning a line on the configuration accumulator.
ScanConfiguration(p, ln) ==
    IF ~IsCommentLine(ln) THEN p
    ELSE IF CommentBody(ln) = <<"{">>
    THEN [p EXCEPT !.accumulating = TRUE, !.text = <<"{">>]
    ELSE IF CommentBody(ln) = <<"}">>
    THEN IF p.accumulating THEN CloseBlock(p, p.text \o <<"}">>) ELSE p
    ELSE IF p.accumulating THEN [p EXCEPT !.text = p.text \o CommentBody(ln)]
    ELSE p

OpenLine == <<"/", "/", " ", "{">>
CloseLine == <<"/", "/", " ", "}">>
BodyLines == {<<"/", "/", " ", "\"", "t", "r", "a", "c", "e", "\"", ":">>, <<" ", " ", "/", "/", " ", " ", "{", "\"", "a", "p", "p", "l", "i", "c", "a", "t", "i", "o", "n", "\"", ":", "\"", "A", "p", "p", "\"", "}", " ">>}
ConfigLines ==
    {OpenLine, CloseLine, <<"0", "x", "1", " ", "A", " ", "-", ">", " ", "0", "x", "2", " ", "B", ":", " ", "a", "(", "{", "\"", "t", "i", "m", "e", "2", "_", "r", "e", "c", "e", "i", "v", "e", "\"", ":", "1", "}", ")">>}
    \cup BodyLines

InitConfig ==
    /\ pc = "feed"
    /\ parser = NoParser
    /\ file = <<>>
    /\ line = <<>>
    /\ lineNumber = 0
    /\ result = NoResult
    /\ shape = [family |-> "misc", text |-> Empty]
    /\ mt = NoCall
    /\ sorter = NoSorter

\* traceParser.parseLine(line, i++) for the next line of the file.
Feed ==
    /\ pc = "feed"
    /\ Len(file) < MaxFeed
    /\ \E ln \in ConfigLines :
        /\ line' = ln
        /\ file' = Append(file, ln)
        /\ parser' = ScanConfiguration(parser, ln)
        /\ result' = parseLine(ln, lineNumber)
    /\ lineNumber' = lineNumber + 1
    /\ UNCHANGED <<pc, shape, mt, sorter>>

NextConfig == Feed

SpecConfig == InitConfig /\ [][NextConfig]_vars

\* The text of the block that the last line of f closes: the bodies between
\* the last opening marker and that line, inside braces.  f ends with the
\* closing marker and has an opening marker.
RECURSIVE Bodies(_, _, _)
Bodies(f, a, b) ==
    IF a > b THEN <<>> ELSE CommentBody(f[a]) \o Bodies(f, a + 1, b)

\* f ends with a block: an opening marker, comment lines that are no
\* markers, a closing marker.  The position of the opening marker, or 0.
BlockStart(f) ==
    LET opens == {a \in 1..(Len(f) - 1) :
                    /\ f[a] = OpenLine
                    /\ \A j \in (a + 1)..(Len(f) - 1) : f[j] \in BodyLines}
    IN  IF f # <<>> /\ f[Len(f)] = CloseLine /\ opens # {}
        THEN CHOOSE a \in opens : TRUE ELSE 0

BlockText(f) == <<"{">> \o Bodies(f, BlockStart(f) + 1, Len(f) - 1) \o <<"}">>

\* No line before position a closed a block.
NoEarlierBlock(f, a) == \A j \in 1..a : f[j] # CloseLine

Trace == <<"t", "r", "a", "c", "e">>
Application == <<"a", "p", "p", "l", "i", "c", "a", "t", "i", "o", "n">>

-----------------------------------------------------------------------------
(* Properties of the productions and of their use by parseLine.            *)

\* The tokens of the path of an instance shape, scanned on its own.
PathTokens(sh) == initScanner(PathText(sh.path)).toks

\* The path of an instance shape is missing, ends in a dot or has a token
\* that is no name where the loop expects a name: at its start or behind a
\* dot.
BadPath(sh) ==
    LET toks == PathTokens(sh)
    IN  \/ Len(toks) = 1
        \/ toks[1].type # "name"
        \/ \E k \in 1..(Len(toks) - 1) :
               /\ toks[k].type = "dot"
               /\ toks[k + 1].type # "name"

\* C14: an InstanceDecl that parseLine returns has its address and a path
\* that is not empty, begins with a name and has a name directly before every
\* index; a line without a path, with a path that ends in a dot or with a
\* token that is no name where a name is expected gives no InstanceDecl.
PartialPathsNeverReturned ==
    pc = "done" =>
        /\ result.node.kind = "InstanceDecl" =>
            /\ result.node.address.type = "address"
            /\ result.node.structureExpr # <<>>
            /\ result.node.structureExpr[1].type = "name"
            /\ \A k \in 1..Len(result.node.structureExpr) :
                   /\ result.node.structureExpr[k].type \in {"name", "number"}
                   /\ result.node.structureExpr[k].type = "number" =>
                          /\ k > 1
                          /\ result.node.structureExpr[k - 1].type = "name"
        /\ (shape.family = "instance" /\ BadPath(shape)) =>
               result.node.kind # "InstanceDecl"

\* An instance line whose path ends in a dot has been given and parseLine
\* has returned null.
PathEndingInDotRejected ==
    /\ pc = "done"
    /\ shape.family = "instance"
    /\ shape.kw = KwInstance
    /\ Len(shape.path) = 2
    /\ shape.path[1] = [sep |-> Sp, name |-> <<"a">>, idx |-> <<"[", "2", "]">>]
    /\ shape.path[2] = [sep |-> Dot, name |-> Empty, idx |-> Empty]
    /\ shape.type = Empty
    /\ result = Return(Null)

\* The line is blank, holds only white space, or holds only a comment.
BlankOrComment(ln) ==
    \/ RunLen(ln, 1, WhiteSpace) = Len(ln)
    \/ HasPrefix(ln, RunLen(ln, 1, WhiteSpace) + 1, <<"/", "/">>)

\* The facts the three productions return for the tokens.
FactsOf(tokens) ==
    {isInstanceDecl(tokens), isMessageOccurrance(tokens), isNote(tokens)} \ {Null}

\* C15: parseLine returns null for a blank line, a line of white space and
\* a line that holds only a comment, and for a line whose tokens no
\* production matches; it returns a fact for a line that a production
\* matches.
NullForBlankAndUnmatched ==
    pc = "done" =>
        LET sc == initScanner(line)
        IN  /\ BlankOrComment(line) =>
                   /\ sc.ok
                   /\ Len(sc.toks) = 1
                   /\ result = Return(Null)
            /\ sc.ok =>
                   (result.node = Null <=> FactsOf(SetLine(sc.toks, lineNumber)) = {})

\* A line that holds only a comment has been given and parseLine has
\* returned null.
CommentOnlyLineGivesNull ==
    /\ pc = "done"
    /\ Len(line) > 2
    /\ RunLen(line, 1, WhiteSpace) > 0
    /\ HasPrefix(line, RunLen(line, 1, WhiteSpace) + 1, <<"/", "/">>)
    /\ result = Return(Null)

\* C16: at most one production returns a fact for the tokens of a line, and
\* the fact parseLine returns is that one, in whatever order the
\* productions are tried.
OnlyOneProduction ==
    pc = "done" =>
        LET sc == initScanner(line)
            tokens == SetLine(sc.toks, lineNumber)
            instanceDecl == isInstanceDecl(tokens)
            messageOccurrance == isMessageOccurrance(tokens)
            note == isNote(tokens)
            facts == {instanceDecl, messageOccurrance, note} \ {Null}
        IN  sc.ok =>
                /\ Cardinality(facts) <= 1
                /\ facts # {} => result.node \in facts
                /\ FirstSuccess(instanceDecl, messageOccurrance, note)
                     = FirstSuccess(note, messageOccurrance, instanceDecl)

\* The production tried last is the one that has returned the fact.
NoteProductionMatched ==
    /\ pc = "done"
    /\ result.node.kind = "Note"
    /\ isInstanceDecl(TokensOf(line, lineNumber)) = Null
    /\ isMessageOccurrance(TokensOf(line, lineNumber)) = Null

\* C19: parseLine returns no fact for an instance line with two path names
\* that no dot separates, with a colon that no type name follows or with
\* tokens behind the dynamic type, nor for a note line with tokens behind
\* the quoted string.
WholeLineConformance ==
    pc = "done" =>
        /\ (/\ shape.family = "instance"
            /\ \/ \E k \in 2..Len(shape.path) :
                      /\ shape.path[k].sep = Sp
                      /\ shape.path[k].name # Empty
                      /\ shape.path[k - 1].name # Empty
               \/ shape.type = <<":">>
               \/ shape.type = <<":", " ", "T", "y", "p", "e", "X", " ", "U">>)
               => result.node = Null
        /\ (shape.family = "note" /\ shape.trail = <<" ", "x">>)
               => result.node = Null

-----------------------------------------------------------------------------
(* sortAndTranslate, the translation of a trace to Google Trace Event      *)
(* Format, from the events its first loop has collected: the function with *)
(* one stack of unfinished events for each thread (src/src/trace-parser.ts *)
(* 479-614) and the one with a single stack (695-789).  The variable       *)
(* sorter holds the locals of the call: which of the two functions runs,   *)
(* events, sorted, the position k in sorted, callstacks (in the order the  *)
(* threads were entered into the map) and result.                          *)

MaxEvents == 3   \* events collected from a trace

\* Times in ns; the trace's times are whole microseconds.
EventTimes == {1000, 2000, 3000}
HandleTimes == {2000, 4000}

\* instanceMap: the thread of each declared instance; 0x3 is not declared.
Receivers == {<<"0", "x", "1">>, <<"0", "x", "2">>, <<"0", "x", "3">>}
instanceMap(address) ==
    CASE address = <<"0", "x", "1">> -> JStr(<<"t", "1">>)
      [] address = <<"0", "x", "2">> -> JStr(<<"t", "2">>)
      [] OTHER -> Undefined

\* The one thread of the function with a single stack: tid 1.
SingleThread == JNum(1)

\* new Message(astNode.data.time2_receive, astNode), for the message that
\* line n of the trace holds.
MessageEvent(n, receiver, receive, handle) ==
    [kind |-> "Message", timestamp |-> receive,
     msg |-> [event |-> <<"e">> \o NumToString(n), receiver |-> receiver,
              time2_receive |-> receive, time3_handle |-> handle]]

\* new NoteEvent(astNode.data.time, astNode)
NoteEvent(n, time) ==
    [kind |-> "NoteEvent", timestamp |-> time,
     note |-> [text |-> <<"n">> \o NumToString(n)]]

\* The events line n can add.
MessagesAt(n) ==
    {MessageEvent(n, r, th[1], th[2]) :
        r \in Receivers,
        th \in {x \in EventTimes \X HandleTimes : x[2] >= x[1]}}
NotesAt(n) == {NoteEvent(n, t) : t \in {1000, 3000}}

RECURSIVE EventLists(_, _)
EventLists(n, withNotes) ==
    IF n = 0 THEN {<<>>}
    ELSE {Append(l, e) : l \in EventLists(n - 1, withNotes),
                         e \in MessagesAt(n) \cup (IF withNotes THEN NotesAt(n) ELSE {})}

\* nsToMicroseconds(ns), and Math.round(ns / 1000) in the older function.
nsToMicroseconds(ns) == ns \div 1000

\* Array.prototype.sort(compare) on elements paired with the key that the
\* comparator subtracts: stable, ascending in the key.
InsertByKey(s, x) ==
    LET before == {j \in 1..Len(s) : s[j].key - x.key > 0}
        at == IF before = {} THEN Len(s) + 1
              ELSE CHOOSE j \in before : \A k \in before : j <= k
    IN  SubSeq(s, 1, at - 1) \o <<x>> \o SubSeq(s, at, Len(s))

RECURSIVE SortByKeyLoop(_, _)
SortByKeyLoop(s, acc) ==
    IF s = <<>> THEN acc ELSE SortByKeyLoop(Tail(s), InsertByKey(acc, Head(s)))

Values(s) == [j \in 1..Len(s) |-> s[j].v]

\* events.sort((a, b) => a.timestamp - b.timestamp)
SortEventsByTime(events) ==
    Values(SortByKeyLoop([j \in 1..Len(events) |->
                             [key |-> events[j].timestamp, v |-> events[j]]], <<>>))

\* The single stack kept as the older function keeps it:
\* unfinishedEvents.sort((a, b) => b.msg.data.time3_handle - a.msg.data.time3_handle)
SortStackDescending(stack) ==
    Values(SortByKeyLoop([j \in 1..Len(stack) |->
                             [key |-> 0 - stack[j].msg.time3_handle, v |-> stack[j]]], <<>>))

\* unfinishedEvents.sort((a, b) => a.msg.data.time3_handle - b.msg.data.time3_handle)
SortStackPerThread(stack) ==
    Values(SortByKeyLoop([j \in 1..Len(stack) |->
                             [key |-> stack[j].msg.time3_handle, v |-> stack[j]]], <<>>))

GTEF_DurationEvent(name, ph, ts, tid) ==
    [name |-> name, cat |-> "art-trace", ph |-> ph, ts |-> ts, tid |-> tid]

GTEF_InstantEvent(name, ts) == [name |-> name, ph |-> "i", ts |-> ts, s |-> "g"]

EndEvent(finishedEvent, tid) ==
    GTEF_DurationEvent(finishedEvent.msg.event, "E",
                       nsToMicroseconds(finishedEvent.msg.time3_handle), tid)

\* The while loop: events are popped from the end of the stack as long as
\* the last one's handle time is not after the receive time.  [stack, result]
RECURSIVE FinishBefore(_, _, _, _)
FinishBefore(stack, res, receive, tid) ==
    IF Len(stack) = 0 THEN [stack |-> stack, result |-> res]
    ELSE IF stack[Len(stack)].msg.time3_handle <= receive
    THEN FinishBefore(SubSeq(stack, 1, Len(stack) - 1),
                      Append(res, EndEvent(stack[Len(stack)], tid)), receive, tid)
    ELSE [stack |-> stack, result |-> res]

\* The loop that finishes the remaining events of one stack.
RECURSIVE FinishAll(_, _, _)
FinishAll(stack, res, tid) ==
    IF Len(stack) = 0 THEN res
    ELSE FinishAll(SubSeq(stack, 1, Len(stack) - 1),
                   Append(res, EndEvent(stack[Len(stack)], tid)), tid)

\* callstacks.forEach(...) from entry j on.
RECURSIVE FinishStacks(_, _, _)
FinishStacks(callstacks, j, res) ==
    IF j > Len(callstacks) THEN res
    ELSE FinishStacks(callstacks, j + 1,
                      FinishAll(callstacks[j].stack, res, callstacks[j].thread))

\* callstacks.get(thread), an empty stack when the map has no entry.
StackOf(callstacks, thread) ==
    IF \E j \in 1..Len(callstacks) : callstacks[j].thread = thread
    THEN callstacks[CHOOSE j \in 1..Len(callstacks) :
                        callstacks[j].thread = thread].stack
    ELSE <<>>

\* The map with the stack of the thread replaced, entered at the end when
\* the thread is new.
WithStack(callstacks, thread, stack) ==
    IF \E j \in 1..Len(callstacks) : callstacks[j].thread = thread
    THEN [j \in 1..Len(callstacks) |->
             IF callstacks[j].thread = thread
             THEN [thread |-> thread, stack |-> stack] ELSE callstacks[j]]
    ELSE Append(callstacks, [thread |-> thread, stack |-> stack])

\* The rest of the loop body once the events before the message are
\* finished: the begin event, the push and the sort of the stack.
BeginMessage(loc, msg, thread, fin) ==
    [loc EXCEPT
        !.k = loc.k + 1,
        !.result = Append(fin.result,
                          GTEF_DurationEvent(msg.msg.event, "B",
                                             nsToMicroseconds(msg.timestamp), thread)),
        !.callstacks = WithStack(loc.callstacks, thread,
                           IF loc.perThread
                           THEN SortStackPerThread(Append(fin.stack, msg))
                           ELSE SortStackDescending(Append(fin.stack, msg)))]

\* The body of the loop over sorted for a message whose thread is known.
TranslateMessage(loc, msg, thread) ==
    BeginMessage(loc, msg, thread,
                 FinishBefore(StackOf(loc.callstacks, thread), loc.result,
                              msg.msg.time2_receive, thread))

\* The body of the loop over sorted for the event at position k + 1.
TranslateBody(loc, event) ==
    IF event.kind = "NoteEvent"
    THEN [loc EXCEPT !.k = loc.k + 1,
                     !.result = Append(loc.result,
                         GTEF_InstantEvent(event.note.text,
                                           nsToMicroseconds(event.timestamp)))]
    ELSE IF ~loc.perThread THEN TranslateMessage(loc, event, SingleThread)
    ELSE IF instanceMap(event.msg.receiver) = Undefined
    THEN [loc EXCEPT !.k = loc.k + 1]
    ELSE TranslateMessage(loc, event, instanceMap(event.msg.receiver))

NoLocals(perThread, events) ==
    [perThread |-> perThread, events |-> events, sorted |-> <<>>, k |-> 0,
     callstacks |-> <<>>, result |-> <<>>]

InitTranslate ==
    /\ pc = "start"
    /\ \E perThread \in BOOLEAN :
       \E n \in 0..MaxEvents :
       \E events \in EventLists(n, perThread) :
           sorter = NoLocals(perThread, events)
    /\ file = <<>>
    /\ line = <<>>
    /\ lineNumber = 0
    /\ result = NoResult
    /\ shape = [family |-> "misc", text |-> Empty]
    /\ mt = NoCall
    /\ parser = NoParser

\* The early return without events, or the sort of the events.
SortEvents ==
    /\ pc = "start"
    /\ IF Len(sorter.events) = 0
       THEN pc' = "done" /\ UNCHANGED sorter
       ELSE /\ pc' = "translate"
            /\ sorter' = [sorter EXCEPT !.events = SortEventsByTime(sorter.events),
                                        !.sorted = SortEventsByTime(sorter.events)]
    /\ UNCHANGED <<shape, line, lineNumber, result, mt, file, parser>>

\* One pass of the loop over sorted.
TranslateEvent ==
    /\ pc = "translate"
    /\ sorter.k < Len(sorter.sorted)
    /\ sorter' = TranslateBody(sorter, sorter.sorted[sorter.k + 1])
    /\ UNCHANGED <<pc, shape, line, lineNumber, result, mt, file, parser>>

\* The remaining unfinished events are finished and result is returned.
FinishRemaining ==
    /\ pc = "translate"
    /\ sorter.k = Len(sorter.sorted)
    /\ sorter' = [sorter EXCEPT
                     !.result = FinishStacks(sorter.callstacks, 1, sorter.result),
                     !.callstacks = [j \in 1..Len(sorter.callstacks) |->
                                        [sorter.callstacks[j] EXCEPT !.stack = <<>>]]]
    /\ pc' = "done"
    /\ UNCHANGED <<shape, line, lineNumber, result, mt, file, parser>>

NextTranslate == SortEvents \/ TranslateEvent \/ FinishRemaining

SpecTranslate == InitTranslate /\ [][NextTranslate]_vars

\* The thread whose stack a message goes to.
ThreadOf(loc, event) ==
    IF loc.perThread THEN instanceMap(event.msg.receiver) ELSE SingleThread

\* The message whose begin event has just been emitted leaves no other
\* message on its stack that was handled by its receive time.
StackFinishedBefore(loc, m) ==
    \A j \in 1..Len(StackOf(loc.callstacks, ThreadOf(loc, m))) :
        LET x == StackOf(loc.callstacks, ThreadOf(loc, m))[j]
        IN  x # m => x.msg.time3_handle > m.msg.time2_receive

\* C18: when the begin event of a message is emitted, no earlier message of
\* the same call stack whose handle time is not after the message's receive
\* time is still on the stack of unfinished events.
UnfinishedEventsFinished ==
    (/\ pc = "translate"
     /\ sorter.k > 0
     /\ sorter.sorted[sorter.k].kind = "Message"
     /\ ThreadOf(sorter, sorter.sorted[sorter.k]) # Undefined)
        => StackFinishedBefore(sorter, sorter.sorted[sorter.k])

\* The same for the function with the single stack alone.
SingleStackFinished ==
    ~sorter.perThread => UnfinishedEventsFinished

-----------------------------------------------------------------------------
(* TraceParserUtils applied to the instance declarations parseLine         *)
(* returns.  The variable mt holds the call of the utility: the function   *)
(* called and how it completed.                                            *)

MaxUtilPath == 2   \* path elements of an instance line given to the utilities

UtilNames == {<<"a", "p", "p", "l", "i", "c", "a", "t", "i", "o", "n">>, <<"T", "o", "p">>,
              <<"s", "p", "e", "c", "i", "a", "l", "s">>, <<"a">>}
UtilElems == [sep : {Dot}, name : UtilNames, idx : {Empty, <<"[", "2", "]">>}]

RECURSIVE UtilPathsOfLen(_)
UtilPathsOfLen(n) ==
    IF n = 0 THEN {<<>>}
    ELSE {Append(p, e) : p \in UtilPathsOfLen(n - 1), e \in UtilElems}

UtilTypes == {Empty,
              <<":", " ", "R", "T", "S", "u", "p", "e", "r", "A", "c", "t", "o", "r">>,
              <<":", " ", "R", "T", "T", "i", "m", "e", "r", "A", "c", "t", "o", "r">>,
              <<":", " ", "T", "y", "p", "e", "X">>}

UtilShapes ==
    {[family |-> "instance", kw |-> KwInstance, addr |-> <<"0", "x", "1">>,
      path |-> [p EXCEPT ![1].sep = Sp], type |-> ty, trail |-> Empty] :
        p \in UNION {UtilPathsOfLen(n) : n \in 1..MaxUtilPath}, ty \in UtilTypes}

UtilFunctions == {"isTopCapsuleInstance", "isSystemInstance", "isTimerInstance"}

InitUtils ==
    /\ pc = "start"
    /\ shape \in UtilShapes
    /\ line = InstanceText(shape)
    /\ lineNumber = 0
    /\ result = NoResult
    /\ mt = NoCall
    /\ file = <<>>
    /\ sorter = NoSorter
    /\ parser = NoParser

\* A caller passes the InstanceDecl it received to a utility.
CallUtil(fn, outcome) ==
    /\ pc = "done"
    /\ result.node.kind = "InstanceDecl"
    /\ mt' = [fn |-> fn] @@ outcome
    /\ pc' = "called"
    /\ UNCHANGED <<shape, line, lineNumber, result, file, sorter, parser>>

IsTopCapsuleInstance == CallUtil("isTopCapsuleInstance", isTopCapsuleInstance(result.node))
IsSystemInstance == CallUtil("isSystemInstance", isSystemInstance(result.node))
IsTimerInstance == CallUtil("isTimerInstance", isTimerInstance(result.node))

NextUtils == ParseLine \/ IsTopCapsuleInstance \/ IsSystemInstance \/ IsTimerInstance

SpecUtils == InitUtils /\ [][NextUtils]_vars

\* C21: each utility returns a boolean and does not raise, for every
\* InstanceDecl parseLine returns, with or without a dynamic type; and
\* isTopCapsuleInstance returns true exactly when the path is the single
\* element application.
UtilitiesNeverRaise ==
    pc = "called" =>
        /\ mt.outcome = "return"
        /\ mt.value \in BOOLEAN
        /\ mt.fn = "isTopCapsuleInstance" =>
               (mt.value <=> PathText(shape.path)
                               = <<"a", "p", "p", "l", "i", "c", "a", "t", "i", "o", "n">>)

\* What the claim says of isTopCapsuleInstance alone.
TopCapsuleExact ==
    (pc = "called" /\ mt.fn = "isTopCapsuleInstance") =>
        /\ mt.outcome = "return"
        /\ mt.value <=> PathText(shape.path)
                          = <<"a", "p", "p", "l", "i", "c", "a", "t", "i", "o", "n">>

\* The utilities that test the dynamic type return a boolean for every
\* declaration that has one.
TypedInstancesAnswered ==
    (pc = "called" /\ result.node.dynamicType # Undefined) =>
        /\ mt.outcome = "return"
        /\ mt.value \in BOOLEAN

====
